---- MODULE Spec2Model ----
(***************************************************************************)
(* A model of the unrust rendering core.                                   *)
(*                                                                         *)
(*   Spec        the Engine of src/src/engine/engine.rs: the object list,  *)
(*               the camera and the per-frame draw loop with its state     *)
(*               cache (EngineContext).                                    *)
(*   SpecShadow  the shadow example of src/examples/shadow.rs: the actors  *)
(*               MainScene, Shadow, Cube and Plane driven tick by tick.    *)
(*   SpecShadowAnyCamera                                                   *)
(*               the same, with the override fields of a new Camera drawn  *)
(*               from every combination of values.                         *)
(***************************************************************************)
EXTENDS Integers, Sequences, FiniteSets, TLC

(***************************************************************************)
(* Bounds of the model.                                                    *)
(***************************************************************************)
MaxObjects == 3
NumPrograms == 2
NumMeshes == 2
MaxEvents == 2
MaxEye == 1

(* Option::None for identities (component ids and program handles are      *)
(* unsigned, so no identity is negative).                                  *)
None == 0 - 1

Programs == 1..NumPrograms
MeshIds == 1..NumMeshes
Transforms == {"t0", "t1"}

VARIABLES
    objects,        \* Engine.objects: Vec<Rc<RefCell<GameObject>>>
    main_camera,    \* Engine.main_camera: Option<Camera>
    ctx,            \* the EngineContext of the render() call in progress
    pc,             \* position of the Engine: "idle", "loop", "done", "panicked"
    idx,            \* position of `for obj in objects.iter()` (1-based)
    gl,             \* the calls made on the WebGL context by the render() call in progress
    world_objects,  \* shadow example: the object list of the World
    shadow,         \* shadow example: the fields of the Shadow actor
    eye,            \* shadow example: MainScene.eye
    last_event,     \* shadow example: MainScene.last_event
    reset,          \* shadow example: the local `reset` of the tick's MainScene::update
    pc_w,           \* shadow example: position in the tick and in the running handler
    upd_idx,        \* shadow example: the object whose actor is updated
    passes,         \* shadow example: what each render pass of the tick read
    lookat_calls,   \* shadow example: calls of Camera::lookat in the tick
    cam_default,    \* shadow example: the override fields of a new Camera
    borrow_log,     \* shadow example: the RefCell events of the last Shadow::update
    bodies,         \* main.rs: the rigid bodies of the Scene, in creation order
    cubes,          \* main.rs: the entity list `cubes`
    main_pc,        \* main.rs: position of main() and of the closure of app.run
    tick_log,       \* main.rs: the steps the tick in progress has run, in order
    clicks,         \* main.rs: the Click events the tick in progress has handled
    prev_ctx,       \* the EngineContext the last render() with a camera dropped
    go,             \* the handle new_gameobject returned last: a position in objects
    CURR_COMPONENT_COUNTER, \* the static counter of Engine::next_component_id
    issued,         \* the kinds and tokens of the components constructed, in order
    light,          \* a Light component
    light_pc,       \* "ready", or "panicked" once an update has unwrapped no inverse
    uniforms        \* the ShaderProgram::set calls of the last Light::bind, in order

engine_vars == <<objects, main_camera, ctx, pc, idx, gl, prev_ctx, go>>

world_vars == <<world_objects, shadow, eye, last_event, reset, pc_w, upd_idx, passes,
                lookat_calls, cam_default, borrow_log>>

id_vars == <<CURR_COMPONENT_COUNTER, issued>>

light_vars == <<light, light_pc, uniforms>>

main_vars == <<bodies, cubes, main_pc, tick_log, clicks>>

not_engine_vars == <<world_vars, id_vars, light_vars, main_vars>>

not_world_vars == <<engine_vars, id_vars, light_vars, main_vars>>

vars == <<objects, main_camera, ctx, pc, idx, gl, world_objects, shadow, eye, last_event,
          reset, pc_w, upd_idx, passes, lookat_calls, cam_default, prev_ctx, go,
          CURR_COMPONENT_COUNTER, issued, light, light_pc, uniforms, borrow_log,
          bodies, cubes, main_pc, tick_log, clicks>>

(***************************************************************************)
(* Components.  A component carries its identity token; a Material also    *)
(* carries the handle of its ShaderProgram.                                *)
(***************************************************************************)
MeshComponent(m) == [kind |-> "Mesh", id |-> m, program |-> None]

MaterialComponent(p) == [kind |-> "Material", id |-> NumMeshes + p, program |-> p]

Components ==
    {MeshComponent(m) : m \in MeshIds} \cup {MaterialComponent(p) : p \in Programs}

(* GameObject::get_component_by_type::<K>(): the position of the first     *)
(* component of kind K in the component list, 0 when there is none.        *)
get_component_by_type(object, kind) ==
    LET hits == {i \in 1..Len(object.components) : object.components[i].kind = kind}
    IN  IF hits = {} THEN 0 ELSE CHOOSE i \in hits : \A j \in hits : i <= j

HasComponent(object, kind) == get_component_by_type(object, kind) # 0

TheComponent(object, kind) == object.components[get_component_by_type(object, kind)]

(***************************************************************************)
(* Camera and EngineContext.                                               *)
(***************************************************************************)
NoCamera == [some |-> FALSE, v |-> "none", p |-> "none"]

Camera == [some |-> TRUE, v |-> "view", p |-> "proj"]

DefaultContext == [mesh |-> None, switch_mesh |-> 0, switch_prog |-> 0, current_prog |-> None]

(* need_prepare_program without the pointer comparison *)
need_prepare_program_first_only(c, prog) == c.current_prog = None

need_prepare_program(c, prog) == c.current_prog = None \/ prog # c.current_prog

(***************************************************************************)
(* The calls on the GL context, in order.                                  *)
(***************************************************************************)
GlCall(op, obj, prog, mesh, val) ==
    [op |-> op, obj |-> obj, prog |-> prog, mesh |-> mesh, val |-> val]

(* Engine::clear *)
clear ==
    << GlCall("clear", 0, None, None, <<"Color">>),
       GlCall("clear", 0, None, None, <<"Depth">>),
       GlCall("clear_color", 0, None, None, <<"0.2", "0.2", "0.2", "1.0">>) >>

(* setup_material that counts the switch and forgets to store the program *)
setup_material_ctx_not_stored(c, material) ==
    IF need_prepare_program(c, material.program)
    THEN [c EXCEPT !.switch_prog = c.switch_prog + 1]
    ELSE c

(* Engine::setup_material: the context after it *)
setup_material_ctx(c, material) ==
    IF need_prepare_program(c, material.program)
    THEN [c EXCEPT !.current_prog = material.program, !.switch_prog = c.switch_prog + 1]
    ELSE c

(* setup_material that binds the material only with a program it prepares *)
setup_material_gl_binds_on_switch(c, material, i) ==
    IF need_prepare_program(c, material.program)
    THEN << GlCall("prepare", i, material.program, None, << >>),
            GlCall("texture_bind", i, material.program, None, << >>) >>
    ELSE << >>

(* Engine::setup_material: the GL calls it makes for object i *)
setup_material_gl(c, material, i) ==
    (IF need_prepare_program(c, material.program)
     THEN << GlCall("prepare", i, material.program, None, << >>) >>
     ELSE << >>)
    \o << GlCall("texture_bind", i, setup_material_ctx(c, material).current_prog, None, << >>) >>

(* Engine::render_object up to the Mesh lookup: the three matrix uniforms *)
render_object_uniforms(c, object, camera, i) ==
    << GlCall("uMVMatrix", i, c.current_prog, None, <<camera.v, object.transform>>),
       GlCall("uPMatrix", i, c.current_prog, None, <<camera.p>>),
       GlCall("uNMatrix", i, c.current_prog, None, <<"inverse_transpose", object.transform>>) >>

(* the mesh test without the id comparison *)
need_bind_mesh_first_only(c, com) == c.mesh = None

(* Engine::render_object: is the mesh (re)bound *)
need_bind_mesh(c, com) == c.mesh = None \/ c.mesh # com.id

(* render_object that draws only a mesh it has just bound *)
render_object_mesh_gl_draws_bound_only(c, com, i) ==
    IF need_bind_mesh(c, com)
    THEN << GlCall("mesh_bind", i, c.current_prog, com.id, << >>),
            GlCall("draw", i, c.current_prog, com.id, << >>) >>
    ELSE << >>

(* Engine::render_object from the Mesh lookup on: bind if needed, draw *)
render_object_mesh_gl(c, com, i) ==
    (IF need_bind_mesh(c, com)
     THEN << GlCall("mesh_bind", i, c.current_prog, com.id, << >>) >>
     ELSE << >>)
    \o << GlCall("draw", i, c.current_prog, com.id, << >>) >>

render_object_ctx(c, com) ==
    IF need_bind_mesh(c, com) THEN [c EXCEPT !.switch_mesh = c.switch_mesh + 1] ELSE c

(***************************************************************************)
(* Actions of the Engine.                                                  *)
(***************************************************************************)
EngineInit ==
    /\ objects = << >>
    /\ main_camera = NoCamera
    /\ ctx = DefaultContext
    /\ pc = "idle"
    /\ idx = 0
    /\ gl = << >>
    /\ prev_ctx = DefaultContext
    /\ go = 0

(* new_gameobject that puts the new object at the front of the list *)
new_gameobject_at_front(transform) ==
    /\ pc = "idle"
    /\ Len(objects) < MaxObjects
    /\ objects' = <<[transform |-> transform, components |-> << >>]>> \o objects
    /\ go' = Len(objects')
    /\ UNCHANGED <<main_camera, ctx, pc, idx, gl>>
    /\ UNCHANGED prev_ctx
    /\ UNCHANGED not_engine_vars

(* Engine::new_gameobject *)
new_gameobject(transform) ==
    /\ pc = "idle"
    /\ Len(objects) < MaxObjects
    /\ objects' = Append(objects, [transform |-> transform, components |-> << >>])
    /\ go' = Len(objects')
    /\ UNCHANGED <<main_camera, ctx, pc, idx, gl>>
    /\ UNCHANGED prev_ctx
    /\ UNCHANGED not_engine_vars

(* The identities in use: identities are handed out in increasing order    *)
(* (Engine::next_component_id, the program cache), so a component that is  *)
(* attached is one already in use or the next new one.                     *)
AttachedComponents ==
    UNION {{objects[i].components[j] : j \in 1..Len(objects[i].components)} :
              i \in 1..Len(objects)}

IsNextOrUsed(c) ==
    \/ c \in AttachedComponents
    \/ \A d \in Components : (d.kind = c.kind /\ d.id < c.id) => d \in AttachedComponents

(* GameObject::add_component through the handle new_gameobject returned,   *)
(* as add_object does right after creating the object: one component of a  *)
(* kind per object, the Mesh (if any) before the Material (if any).        *)
add_component(c) ==
    /\ pc = "idle"
    /\ go > 0
    /\ ~HasComponent(objects[go], c.kind)
    /\ c.kind = "Mesh" => objects[go].components = << >>
    /\ IsNextOrUsed(c)
    /\ objects' = [objects EXCEPT ![go].components = Append(@, c)]
    /\ UNCHANGED <<main_camera, ctx, pc, idx, gl>>
    /\ UNCHANGED <<prev_ctx, go>>
    /\ UNCHANGED not_engine_vars

(* `engine.main_camera = Some(camera)`; the field is public *)
set_main_camera(camera) ==
    /\ pc = "idle"
    /\ main_camera # camera
    /\ main_camera' = camera
    /\ UNCHANGED <<objects, ctx, pc, idx, gl>>
    /\ UNCHANGED <<prev_ctx, go>>
    /\ UNCHANGED not_engine_vars

(* render entry that enters the loop without testing the camera *)
render_begin_no_camera_test ==
    /\ pc = "idle"
    /\ gl' = clear
    /\ ctx' = DefaultContext
    /\ idx' = 1
    /\ pc' = "loop"
    /\ UNCHANGED <<objects, main_camera>>
    /\ UNCHANGED <<prev_ctx, go>>
    /\ UNCHANGED not_engine_vars

(* render entry that goes on with the context of the frame before *)
render_begin_keeps_ctx ==
    /\ pc = "idle"
    /\ gl' = clear
    /\ IF main_camera.some
       THEN /\ ctx' = prev_ctx
            /\ idx' = 1
            /\ pc' = "loop"
       ELSE /\ pc' = "done"
            /\ UNCHANGED <<ctx, idx>>
    /\ UNCHANGED <<objects, main_camera>>
    /\ UNCHANGED <<prev_ctx, go>>
    /\ UNCHANGED not_engine_vars

(* render entry that takes the camera out of the engine to use it *)
render_begin_takes_camera ==
    /\ pc = "idle"
    /\ gl' = clear
    /\ IF main_camera.some
       THEN /\ ctx' = DefaultContext
            /\ idx' = 1
            /\ pc' = "loop"
            /\ main_camera' = NoCamera
       ELSE /\ pc' = "done"
            /\ UNCHANGED <<ctx, idx, main_camera>>
    /\ UNCHANGED objects
    /\ UNCHANGED <<prev_ctx, go>>
    /\ UNCHANGED not_engine_vars

(* Engine::render, entry: clear, then the camera test *)
render_begin ==
    /\ pc = "idle"
    /\ gl' = clear
    /\ IF main_camera.some
       THEN /\ ctx' = DefaultContext
            /\ idx' = 1
            /\ pc' = "loop"
       ELSE /\ pc' = "done"
            /\ UNCHANGED <<ctx, idx>>
    /\ UNCHANGED <<objects, main_camera>>
    /\ UNCHANGED <<prev_ctx, go>>
    /\ UNCHANGED not_engine_vars

(* an iteration that skips an object without a Material *)
render_step_no_material_skips ==
    /\ pc = "loop"
    /\ idx <= Len(objects)
    /\ ~HasComponent(objects[idx], "Material")
    /\ idx' = idx + 1
    /\ UNCHANGED <<objects, main_camera, ctx, pc, gl>>
    /\ UNCHANGED <<prev_ctx, go>>
    /\ UNCHANGED not_engine_vars

(* Engine::render, an iteration on an object without a Material:           *)
(* get_component_by_type::<Material>().unwrap() panics.                    *)
render_step_no_material ==
    /\ pc = "loop"
    /\ idx <= Len(objects)
    /\ ~HasComponent(objects[idx], "Material")
    /\ pc' = "panicked"
    /\ UNCHANGED <<objects, main_camera, ctx, idx, gl>>
    /\ UNCHANGED <<prev_ctx, go>>
    /\ UNCHANGED not_engine_vars

(* Engine::render, an iteration on an object with a Material and no Mesh:  *)
(* setup_material runs, render_object writes the matrices, then            *)
(* get_component_by_type::<Mesh>().unwrap() panics.                        *)
render_step_no_mesh ==
    /\ pc = "loop"
    /\ idx <= Len(objects)
    /\ HasComponent(objects[idx], "Material")
    /\ ~HasComponent(objects[idx], "Mesh")
    /\ LET object == objects[idx]
           material == TheComponent(object, "Material")
           c1 == setup_material_ctx(ctx, material)
       IN  /\ ctx' = c1
           /\ gl' = gl \o setup_material_gl(ctx, material, idx)
                       \o render_object_uniforms(c1, object, main_camera, idx)
    /\ pc' = "panicked"
    /\ UNCHANGED <<objects, main_camera, idx>>
    /\ UNCHANGED <<prev_ctx, go>>
    /\ UNCHANGED not_engine_vars

(* Engine::render, an iteration on an object with a Material and a Mesh:   *)
(* setup_material, render_object, then the mesh cache is updated.          *)
render_step ==
    /\ pc = "loop"
    /\ idx <= Len(objects)
    /\ HasComponent(objects[idx], "Material")
    /\ HasComponent(objects[idx], "Mesh")
    /\ LET object == objects[idx]
           material == TheComponent(object, "Material")
           com == TheComponent(object, "Mesh")
           c1 == setup_material_ctx(ctx, material)
           c2 == render_object_ctx(c1, com)
       IN  /\ gl' = gl \o setup_material_gl(ctx, material, idx)
                       \o render_object_uniforms(c1, object, main_camera, idx)
                       \o render_object_mesh_gl(c1, com, idx)
           /\ ctx' = [c2 EXCEPT !.mesh = com.id]
    /\ idx' = idx + 1
    /\ UNCHANGED <<objects, main_camera, pc>>
    /\ UNCHANGED <<prev_ctx, go>>
    /\ UNCHANGED not_engine_vars

(* Engine::render, the loop is exhausted *)
render_end ==
    /\ pc = "loop"
    /\ idx > Len(objects)
    /\ pc' = "done"
    /\ UNCHANGED <<objects, main_camera, ctx, idx, gl>>
    /\ UNCHANGED <<prev_ctx, go>>
    /\ UNCHANGED not_engine_vars

(* Engine::render returns: the EngineContext is dropped *)
render_return ==
    /\ pc = "done"
    /\ pc' = "idle"
    /\ ctx' = DefaultContext
    /\ idx' = 0
    /\ gl' = << >>
    /\ prev_ctx' = (IF main_camera.some THEN ctx ELSE prev_ctx)
    /\ UNCHANGED go
    /\ UNCHANGED <<objects, main_camera>>
    /\ UNCHANGED not_engine_vars


(***************************************************************************)
(* Engine::next_component_id (src/engine/engine.rs:133-137).               *)
(*                                                                         *)
(* The counter is an AtomicU32 that starts at 1; fetch_add returns the     *)
(* value before the addition and wraps around on overflow.  The counter    *)
(* of the model is CounterBits wide instead of 32, so that the wrap is     *)
(* within reach; the arithmetic is the same modulo 2^CounterBits.          *)
(***************************************************************************)
CounterBits == 3

CounterModulus == 2 ^ CounterBits

MaxCalls == CounterModulus + 2

ComponentKinds == {"Mesh", "Material"}

IdInit ==
    /\ CURR_COMPONENT_COUNTER = 1
    /\ issued = << >>

fetch_add(counter) == (counter + 1) % CounterModulus

(* One call of next_component_id by the constructor of a component of the *)
(* given kind: the token is the value of the counter before the addition. *)
next_component_id(kind) ==
    /\ Len(issued) < MaxCalls
    /\ issued' = Append(issued, [kind |-> kind, id |-> CURR_COMPONENT_COUNTER])
    /\ CURR_COMPONENT_COUNTER' = fetch_add(CURR_COMPONENT_COUNTER)
    /\ UNCHANGED <<engine_vars, world_vars, light_vars, main_vars>>

NextIds == \E kind \in ComponentKinds : next_component_id(kind)


(***************************************************************************)
(* The shadow example (src/examples/shadow.rs).                            *)
(*                                                                         *)
(* A GameObject of the World is a record: its component kinds in order,    *)
(* whether its actor has been started, its `active` flag, and the data of  *)
(* its Camera, Light and Material (of the first surface of its Mesh) when  *)
(* it has one.  Handles held by an actor are positions in world_objects:   *)
(* the list only grows until a reset empties it, and a reset drops every   *)
(* actor that holds a handle.  0 is the handle GameObject::empty().        *)
(***************************************************************************)
NoOverrides == [render_texture |-> "None", rect |-> << >>]

(* Some(((0, 0), (1024, 1024))) *)
FullRect == <<0, 0, 1024, 1024>>

(* the values the override fields of a Camera may hold before the Shadow   *)
(* first runs: unset, or some other target and the 800 x 600 window        *)
Overrides == [render_texture : {"None", "other_rt"}, rect : {<< >>, <<0, 0, 800, 600>>}]

NoCameraData == [render_texture |-> "None", rect |-> << >>, view |-> << >>]

NewGameObject ==
    [components |-> << >>, started |-> FALSE, active |-> TRUE, camera |-> NoCameraData,
     direction |-> << >>, uShadowMatrix |-> << >>, uDepthMap |-> "None"]

(* Camera::default(), with the override fields as given *)
CameraDefault(o) == [render_texture |-> o.render_texture, rect |-> o.rect, view |-> << >>]

(* Directional::default(): +Z turned 30 degrees about X and 50 about Y,    *)
(* in thousandths                                                          *)
DefaultDirection == <<766, 0 - 321, 557>>

LightDirections == {DefaultDirection, <<0, 0 - 1000, 0>>, <<600, 0 - 800, 0>>}

Neg(v) == <<0 - v[1], 0 - v[2], 0 - v[3]>>

(* proj * view of Shadow::update for a light direction *)
ShadowMatrix(lightdir) ==
    [ortho |-> <<0 - 20, 20, 0 - 20, 20, 0 - 20, 40>>,
     look_from |-> Neg(lightdir), look_at |-> <<0, 0, 0>>, up |-> <<0, 1, 0>>]

IsA(i, kind) ==
    /\ i \in 1..Len(world_objects)
    /\ \E k \in 1..Len(world_objects[i].components) : world_objects[i].components[k] = kind

Actors == {"MainScene", "Shadow", "Cube", "Plane"}

Unstarted(i, kind) == IsA(i, kind) /\ ~world_objects[i].started

(* World::current_camera(): the first object with a Camera, 0 if none *)
current_camera ==
    LET cams == {i \in 1..Len(world_objects) : IsA(i, "Camera")}
    IN  IF cams = {} THEN 0 ELSE CHOOSE i \in cams : \A j \in cams : i <= j

(* the object that carries the Shadow actor, 0 if none *)
shadow_go ==
    LET gos == {i \in 1..Len(world_objects) : IsA(i, "Shadow")}
    IN  IF gos = {} THEN 0 ELSE CHOOSE i \in gos : \A j \in gos : i <= j

(* World::reset(): the object list is emptied *)
world_reset == << >>

(* World::new_game_object(): a new GameObject at the end of the list *)
world_new_game_object(objs) == Append(objs, NewGameObject)

(* Shadow::new(): three empty handles and a 1024 x 1024 depth texture *)
ShadowNew == [rt |-> "rt", cube |-> 0, plane |-> 0, light |-> 0]

NoShadow == [rt |-> "None", cube |-> 0, plane |-> 0, light |-> 0]

(* MainScene::new(): eye = (-3, 3, -3), held as the turns about +Y (a) and *)
(* the steps of 2 * front (r) taken from there                             *)
EyeNew == [a |-> 0, r |-> 0]

EventKinds == {"KeyA", "KeyD", "KeyW", "KeyS", "Escape", "KeyQ", "Click"}

EventLists == UNION {[1..n -> EventKinds] : n \in 0..MaxEvents}

(* one iteration of `for evt in world.events().iter()` on the record       *)
(* [eye, last_event, reset]                                                *)
handle_event(st, evt) ==
    LET e == st.eye IN
    [eye |-> CASE evt = "KeyA" -> [e EXCEPT !.a = e.a - 1]
               [] evt = "KeyD" -> [e EXCEPT !.a = e.a + 1]
               [] evt = "KeyW" -> [e EXCEPT !.r = e.r - 1]
               [] evt = "KeyS" -> [e EXCEPT !.r = e.r + 1]
               [] OTHER -> e,
     last_event |-> evt,
     reset |-> (st.reset \/ evt = "Escape")]

RECURSIVE handle_events(_, _)
handle_events(st, evts) ==
    IF evts = << >> THEN st ELSE handle_events(handle_event(st, Head(evts)), Tail(evts))

EyeInBounds(e) == e.a \in (0 - MaxEye)..MaxEye /\ e.r \in (0 - MaxEye)..MaxEye

(* what a render pass reads *)
PassRead(kind) ==
    [kind |-> kind,
     render_texture |-> world_objects[current_camera].camera.render_texture,
     rect |-> world_objects[current_camera].camera.rect,
     view |-> world_objects[current_camera].camera.view,
     cube_active |-> IF shadow.cube = 0 THEN FALSE ELSE world_objects[shadow.cube].active,
     go_active |-> IF shadow_go = 0 THEN FALSE ELSE world_objects[shadow_go].active,
     direction |-> IF shadow.light = 0 THEN << >> ELSE world_objects[shadow.light].direction,
     cube_matrix |-> IF shadow.cube = 0 THEN << >> ELSE world_objects[shadow.cube].uShadowMatrix,
     plane_matrix |-> IF shadow.plane = 0 THEN << >> ELSE world_objects[shadow.plane].uShadowMatrix]

(***************************************************************************)
(* Lights (src/engine/render/light.rs).                                    *)
(*                                                                         *)
(* A vector is a triple of integers, a Matrix4f a 4-tuple of rows of four  *)
(* integers.  Directions and positions are in thousandths of a world unit, *)
(* the photometric and attenuation terms in ten-thousandths.  The model    *)
(* matrices are translations, quarter turns, their products and one        *)
(* matrix without an inverse: the inverse of each invertible one has       *)
(* integer entries, so the arithmetic of update is exact.                  *)
(***************************************************************************)
MaxShift == 1

Shifts == {1000 * k : k \in (0 - MaxShift) .. MaxShift}

LocalPositions == {<<x, y, 0>> : x \in Shifts, y \in Shifts}

Translations == {<<x, 0, z>> : x \in Shifts, z \in Shifts}

LocalDirections ==
    {DefaultDirection, <<0, 0, 1000>>, <<0, 0, 2000>>, <<600, 0, 800>>,
     <<0, 0 - 1000, 0>>, <<1000, 1000, 0>>}

LightNames == {"uDirectionalLight", "uPointLights[0]"}

Identity == <<<<1, 0, 0, 0>>, <<0, 1, 0, 0>>, <<0, 0, 1, 0>>, <<0, 0, 0, 1>>>>

from_translation(t) ==
    <<<<1, 0, 0, t[1]>>, <<0, 1, 0, t[2]>>, <<0, 0, 1, t[3]>>, <<0, 0, 0, 1>>>>

QuarterTurnX == <<<<1, 0, 0, 0>>, <<0, 0, 0 - 1, 0>>, <<0, 1, 0, 0>>, <<0, 0, 0, 1>>>>

QuarterTurnY == <<<<0, 0, 1, 0>>, <<0, 1, 0, 0>>, <<0 - 1, 0, 0, 0>>, <<0, 0, 0, 1>>>>

Flatten == <<<<1, 0, 0, 0>>, <<0, 1, 0, 0>>, <<0, 0, 0, 0>>, <<0, 0, 0, 1>>>>

MatMul(a, b) ==
    [i \in 1..4 |-> [j \in 1..4 |->
        a[i][1] * b[1][j] + a[i][2] * b[2][j] + a[i][3] * b[3][j] + a[i][4] * b[4][j]]]

MatVec(m, v) ==
    [i \in 1..4 |-> m[i][1] * v[1] + m[i][2] * v[2] + m[i][3] * v[3] + m[i][4] * v[4]]

ModelMatrices ==
    {from_translation(t) : t \in Translations}
        \cup {MatMul(from_translation(t), QuarterTurnX) : t \in Translations}
        \cup {QuarterTurnY, Flatten}

transpose(m) == [i \in 1..4 |-> [j \in 1..4 |-> m[j][i]]]

SkipIndex(k, i) == IF k < i THEN k ELSE k + 1

Minor(m, n, i, j) ==
    [r \in 1..(n - 1) |-> [c \in 1..(n - 1) |-> m[SkipIndex(r, i)][SkipIndex(c, j)]]]

RECURSIVE determinant(_, _)
RECURSIVE Laplace(_, _, _)
Laplace(m, n, j) ==
    IF j = 0 THEN 0
    ELSE Laplace(m, n, j - 1)
            + (IF j % 2 = 1 THEN 1 ELSE 0 - 1) * m[1][j] * determinant(Minor(m, n, 1, j), n - 1)

determinant(m, n) == IF n = 1 THEN m[1][1] ELSE Laplace(m, n, n)

Cofactor(m, i, j) ==
    (IF (i + j) % 2 = 0 THEN 1 ELSE 0 - 1) * determinant(Minor(m, 4, i, j), 3)

(* Matrix4::inverse_transform: None when the determinant is zero, else the *)
(* adjugate over the determinant.                                          *)
inverse_transform(m) ==
    LET det == determinant(m, 4)
    IN  IF det = 0 THEN << >>
        ELSE << [i \in 1..4 |-> [j \in 1..4 |-> Cofactor(m, j, i) \div det]] >>

(* Matrix4::transform_vector: the product with (v, 0), truncated *)
transform_vector(m, v) ==
    LET h == MatVec(m, <<v[1], v[2], v[3], 0>>)
    IN  <<h[1], h[2], h[3]>>

(* Matrix4::transform_point: the product with (p, 1), divided by its w *)
transform_point(m, p) ==
    LET h == MatVec(m, <<p[1], p[2], p[3], 1>>)
    IN  <<h[1] \div h[4], h[2] \div h[4], h[3] \div h[4]>>

Directional_default ==
    [variant |-> "Directional",
     direction |-> DefaultDirection,
     ambient |-> <<2120, 2270, 2590>>,
     diffuse |-> <<10000, 9570, 8390>>,
     specular |-> <<10000, 10000, 10000>>,
     world_space_direction |-> DefaultDirection]

Point_default ==
    [variant |-> "Point",
     position |-> <<0, 0, 0>>,
     ambient |-> <<500, 500, 500>>,
     diffuse |-> <<8000, 8000, 8000>>,
     specular |-> <<10000, 10000, 10000>>,
     constant |-> <<10000>>,
     linear |-> <<220>>,
     quadratic |-> <<19>>,
     world_space_position |-> <<0, 0, 0>>]

(* the lights a caller can construct: the defaults with the public local  *)
(* field replaced                                                         *)
Lights ==
    {[Directional_default EXCEPT !.direction = d] : d \in LocalDirections}
        \cup {[Point_default EXCEPT !.position = p] : p \in LocalPositions}

(* ShaderProgram::set as called by bind *)
Uniform(name, value) == [name |-> name, value |-> value]

(* Directional::bind that uploads the local direction *)
Directional_bind_local(l, lightname) ==
    << Uniform(lightname \o ".direction", l.direction),
       Uniform(lightname \o ".ambient", l.ambient),
       Uniform(lightname \o ".diffuse", l.diffuse),
       Uniform(lightname \o ".specular", l.specular) >>

Directional_bind(l, lightname) ==
    << Uniform(lightname \o ".direction", l.world_space_direction),
       Uniform(lightname \o ".ambient", l.ambient),
       Uniform(lightname \o ".diffuse", l.diffuse),
       Uniform(lightname \o ".specular", l.specular) >>

Directional_update(l, modelm) ==
    LET m == transpose(inverse_transform(modelm)[1])
    IN  [l EXCEPT !.world_space_direction = transform_vector(m, l.direction)]

Point_bind(l, lightname) ==
    << Uniform(lightname \o ".position", l.world_space_position),
       Uniform(lightname \o ".ambient", l.ambient),
       Uniform(lightname \o ".diffuse", l.diffuse),
       Uniform(lightname \o ".specular", l.specular),
       Uniform(lightname \o ".constant", l.constant),
       Uniform(lightname \o ".linear", l.linear),
       Uniform(lightname \o ".quadratic", l.quadratic),
       Uniform(lightname \o ".rate", <<10000>>) >>

(* Point::update that transforms the position as a vector: no translation *)
Point_update_as_vector(l, modelm) ==
    [l EXCEPT !.world_space_position = transform_vector(modelm, l.position)]

Point_update(l, modelm) ==
    [l EXCEPT !.world_space_position = transform_point(modelm, l.position)]

(* the light of the engine and of the shadow example is not exercised *)
LightInit ==
    /\ light = Directional_default
    /\ light_pc = "ready"
    /\ uniforms = << >>

LightInitAny ==
    /\ light \in Lights
    /\ light_pc = "ready"
    /\ uniforms = << >>

(* Light::update; the unwrap of Directional::update panics when the model *)
(* matrix has no inverse.  uniforms holds the set calls since the update. *)
Light_update(modelm) ==
    /\ light_pc = "ready"
    /\ IF light.variant = "Directional"
       THEN IF inverse_transform(modelm) = << >>
            THEN light_pc' = "panicked" /\ light' = light
            ELSE light_pc' = light_pc /\ light' = Directional_update(light, modelm)
       ELSE light_pc' = light_pc /\ light' = Point_update(light, modelm)
    /\ uniforms' = << >>
    /\ UNCHANGED <<engine_vars, world_vars, id_vars, main_vars>>

(* Light::bind *)
Light_bind(lightname) ==
    /\ light_pc = "ready"
    /\ uniforms' = (IF light.variant = "Directional"
                    THEN Directional_bind(light, lightname)
                    ELSE Point_bind(light, lightname))
    /\ UNCHANGED <<light, light_pc>>
    /\ UNCHANGED <<engine_vars, world_vars, id_vars, main_vars>>

NextLight ==
    \/ \E modelm \in ModelMatrices : Light_update(modelm)
    \/ \E lightname \in LightNames : Light_bind(lightname)


(***************************************************************************)
(* The application (src/main.rs).                                          *)
(*                                                                         *)
(* A rigid body is its shape and its position; the physics are an          *)
(* external collaborator, so the Scene that main() starts from is any      *)
(* list of up to MaxInitialBodies bodies and a physics step leaves every   *)
(* body at any position.  An Entity is a pair of handles: positions in     *)
(* Engine.objects and in the bodies of the Scene.                          *)
(***************************************************************************)
MaxInitialBodies == 2

Shapes == {"Cuboid", "Plane", "Ball"}

RigidBody(shape, position) == [shape |-> shape, position |-> position]

RigidBodies == {RigidBody(sh, t) : sh \in Shapes, t \in Transforms}

Scenes == UNION {[1..n -> RigidBodies] : n \in 0..MaxInitialBodies}

Entity(g, rb) == [go |-> g, rb |-> rb]

(* MeshManager::get: the cube mesh, the plane mesh, or None *)
MeshManager_get(shape) ==
    IF shape = "Cuboid" THEN << MeshComponent(1) >>
    ELSE IF shape = "Plane" THEN << MeshComponent(2) >>
    ELSE << >>

(* add_object that attaches the mesh only *)
add_object_mesh_only(objs, rb) ==
    Append(objs, [transform |-> rb.position, components |-> MeshManager_get(rb.shape)])

(* add_object: the object list of the engine after it; the unwrap of the  *)
(* mesh panics after new_gameobject has pushed the object                  *)
add_object(objs, rb) ==
    IF MeshManager_get(rb.shape) = << >>
    THEN Append(objs, [transform |-> rb.position, components |-> << >>])
    ELSE Append(objs, [transform |-> rb.position,
                       components |-> MeshManager_get(rb.shape) \o << MaterialComponent(1) >>])

MainInit ==
    /\ bodies = << >>
    /\ cubes = << >>
    /\ main_pc = "main"
    /\ tick_log = << >>
    /\ clicks = 0

MainInitAny ==
    /\ bodies \in Scenes
    /\ cubes = << >>
    /\ main_pc = "main"
    /\ tick_log = << >>
    /\ clicks = 0

(* lines 85-106: the engine, the camera looking from (0, 10, 10), the Scene *)
Main_setup ==
    /\ main_pc = "main"
    /\ main_camera' = [some |-> TRUE, v |-> "lookat(0,10,10)", p |-> "proj"]
    /\ main_pc' = "startup"
    /\ UNCHANGED <<objects, ctx, pc, idx, gl, prev_ctx, go>>
    /\ UNCHANGED <<bodies, cubes, tick_log, clicks>>
    /\ UNCHANGED <<world_vars, id_vars, light_vars>>

(* lines 108-115, one iteration: an object and an Entity for the next body *)
Main_startup_add_object ==
    /\ main_pc = "startup"
    /\ Len(cubes) < Len(bodies)
    /\ LET rb == Len(cubes) + 1 IN
       /\ objects' = add_object(objects, bodies[rb])
       /\ go' = Len(objects')
       /\ IF MeshManager_get(bodies[rb].shape) = << >>
          THEN main_pc' = "panicked" /\ UNCHANGED cubes
          ELSE main_pc' = main_pc /\ cubes' = Append(cubes, Entity(go', rb))
    /\ UNCHANGED <<main_camera, ctx, pc, idx, gl, prev_ctx>>
    /\ UNCHANGED <<bodies, tick_log, clicks>>
    /\ UNCHANGED <<world_vars, id_vars, light_vars>>

(* line 120: app.run takes over *)
Main_startup_done ==
    /\ main_pc = "startup"
    /\ Len(cubes) = Len(bodies)
    /\ main_pc' = "step"
    /\ UNCHANGED engine_vars
    /\ UNCHANGED <<bodies, cubes, tick_log, clicks>>
    /\ UNCHANGED <<world_vars, id_vars, light_vars>>

(* lines 121-122: scene.step() moves the bodies *)
Main_step ==
    /\ main_pc = "step"
    /\ \E moved \in [1..Len(bodies) -> Transforms] :
          bodies' = [i \in 1..Len(bodies) |-> [bodies[i] EXCEPT !.position = moved[i]]]
    /\ tick_log' = << "step" >>
    /\ clicks' = 0
    /\ main_pc' = "events"
    /\ UNCHANGED engine_vars
    /\ UNCHANGED cubes
    /\ UNCHANGED <<world_vars, id_vars, light_vars>>

(* lines 127-140, one Click of app.events: a new box, its object, its     *)
(* Entity                                                                  *)
Main_click ==
    /\ main_pc = "events"
    /\ Len(bodies) < MaxObjects
    /\ \E t \in Transforms :
          /\ bodies' = Append(bodies, RigidBody("Cuboid", t))
          /\ objects' = add_object(objects, RigidBody("Cuboid", t))
    /\ go' = Len(objects')
    /\ cubes' = Append(cubes, Entity(go', Len(bodies')))
    /\ clicks' = clicks + 1
    /\ UNCHANGED <<main_camera, ctx, pc, idx, gl, prev_ctx>>
    /\ UNCHANGED <<main_pc, tick_log>>
    /\ UNCHANGED <<world_vars, id_vars, light_vars>>

(* line 141: the events of the tick are all handled *)
Main_events_done ==
    /\ main_pc = "events"
    /\ tick_log' = Append(tick_log, "events")
    /\ main_pc' = "lookat"
    /\ UNCHANGED engine_vars
    /\ UNCHANGED <<bodies, cubes, clicks>>
    /\ UNCHANGED <<world_vars, id_vars, light_vars>>

(* lines 149-157: the camera looks from (-30, 30, -30) *)
Main_lookat ==
    /\ main_pc = "lookat"
    /\ IF main_camera.some
       THEN /\ main_camera' = [main_camera EXCEPT !.v = "lookat(-30,30,-30)"]
            /\ main_pc' = "sync"
            /\ tick_log' = Append(tick_log, "lookat")
       ELSE /\ main_pc' = "panicked"
            /\ UNCHANGED <<main_camera, tick_log>>
    /\ UNCHANGED <<objects, ctx, pc, idx, gl, prev_ctx, go>>
    /\ UNCHANGED <<bodies, cubes, clicks>>
    /\ UNCHANGED <<world_vars, id_vars, light_vars>>

(* the object of an Entity after the transform synchronisation *)
Synced(object, e) == [object EXCEPT !.transform = bodies[e.rb].position]

(* the tick without the transform synchronisation *)
Main_sync_missing ==
    /\ main_pc = "sync"
    /\ tick_log' = Append(tick_log, "sync")
    /\ main_pc' = "render"
    /\ UNCHANGED engine_vars
    /\ UNCHANGED <<bodies, cubes, clicks>>
    /\ UNCHANGED <<world_vars, id_vars, light_vars>>

(* lines 159-161: every Entity's object takes the position of its body *)
Main_sync ==
    /\ main_pc = "sync"
    /\ objects' = [i \in 1..Len(objects) |->
                     IF \E k \in 1..Len(cubes) : cubes[k].go = i
                     THEN Synced(objects[i],
                                 cubes[CHOOSE k \in 1..Len(cubes) : cubes[k].go = i])
                     ELSE objects[i]]
    /\ tick_log' = Append(tick_log, "sync")
    /\ main_pc' = "render"
    /\ UNCHANGED <<main_camera, ctx, pc, idx, gl, prev_ctx, go>>
    /\ UNCHANGED <<bodies, cubes, clicks>>
    /\ UNCHANGED <<world_vars, id_vars, light_vars>>

(* line 166: engine.borrow_mut().render() is called *)
Main_render ==
    /\ main_pc = "render"
    /\ tick_log' = Append(tick_log, "render")
    /\ main_pc' = "rendering"
    /\ UNCHANGED engine_vars
    /\ UNCHANGED <<bodies, cubes, clicks>>
    /\ UNCHANGED <<world_vars, id_vars, light_vars>>

(* the steps of Engine::render inside the call of line 166 *)
Main_render_begin == main_pc = "rendering" /\ render_begin

Main_render_step == main_pc = "rendering" /\ render_step

Main_render_end == main_pc = "rendering" /\ render_end

(* lines 166-168: render returns and the tick is over *)
Main_render_return ==
    /\ main_pc = "rendering"
    /\ pc = "done"
    /\ pc' = "idle"
    /\ ctx' = DefaultContext
    /\ idx' = 0
    /\ gl' = << >>
    /\ prev_ctx' = (IF main_camera.some THEN ctx ELSE prev_ctx)
    /\ main_pc' = "step"
    /\ UNCHANGED <<objects, main_camera, go>>
    /\ UNCHANGED <<bodies, cubes, tick_log, clicks>>
    /\ UNCHANGED <<world_vars, id_vars, light_vars>>

NextMain ==
    \/ Main_setup
    \/ Main_startup_add_object
    \/ Main_startup_done
    \/ Main_step
    \/ Main_click
    \/ Main_events_done
    \/ Main_lookat
    \/ Main_sync
    \/ Main_render
    \/ Main_render_begin
    \/ Main_render_step
    \/ Main_render_end
    \/ Main_render_return


(* main(): one object carrying a new MainScene, then the event loop *)
WorldInit ==
    /\ world_objects = << [NewGameObject EXCEPT !.components = <<"MainScene">>] >>
    /\ shadow = NoShadow
    /\ eye = EyeNew
    /\ last_event = "None"
    /\ reset = FALSE
    /\ pc_w = "tick"
    /\ upd_idx = 0
    /\ passes = << >>
    /\ lookat_calls = 0
    /\ borrow_log = << >>

Init ==
    EngineInit /\ WorldInit /\ IdInit /\ LightInit /\ MainInit /\ cam_default = NoOverrides

InitAnyCamera ==
    EngineInit /\ WorldInit /\ IdInit /\ LightInit /\ MainInit /\ cam_default \in Overrides

(* ---- the World's tick: start the new actors, update every actor, render *)
World_tick ==
    /\ pc_w = "tick"
    /\ pc_w' = "start"
    /\ passes' = << >>
    /\ lookat_calls' = 0
    /\ reset' = FALSE
    /\ UNCHANGED <<world_objects, shadow, eye, last_event, upd_idx, cam_default>>
    /\ UNCHANGED borrow_log
    /\ UNCHANGED not_world_vars

World_start_done ==
    /\ pc_w = "start"
    /\ \A i \in 1..Len(world_objects), k \in Actors : ~Unstarted(i, k)
    /\ pc_w' = "update"
    /\ upd_idx' = 1
    /\ UNCHANGED <<world_objects, shadow, eye, last_event, reset, passes, lookat_calls,
                   cam_default>>
    /\ UNCHANGED borrow_log
    /\ UNCHANGED not_world_vars

(* MainScene::start: a camera, a directional light, a Shadow *)
MainScene_start(i) ==
    /\ pc_w = "start"
    /\ Unstarted(i, "MainScene")
    /\ world_objects' =
          [world_objects EXCEPT ![i].started = TRUE]
          \o << [NewGameObject EXCEPT !.components = <<"Camera">>,
                                      !.camera = CameraDefault(cam_default)],
                [NewGameObject EXCEPT !.components = <<"Light">>,
                                      !.direction = DefaultDirection],
                [NewGameObject EXCEPT !.components = <<"Shadow">>] >>
    /\ shadow' = ShadowNew
    /\ UNCHANGED <<eye, last_event, reset, pc_w, upd_idx, passes, lookat_calls, cam_default>>
    /\ UNCHANGED borrow_log
    /\ UNCHANGED not_world_vars

(* Shadow::start: a camera, the light, the display quad on its own object, *)
(* the cube and the plane                                                  *)
Shadow_start(i) ==
    /\ pc_w = "start"
    /\ Unstarted(i, "Shadow")
    /\ LET n == Len(world_objects) IN
       /\ world_objects' =
             [world_objects EXCEPT ![i].started = TRUE,
                                   ![i].components = Append(@, "Mesh"),
                                   ![i].uDepthMap = shadow.rt]
             \o << [NewGameObject EXCEPT !.components = <<"Camera">>,
                                         !.camera = CameraDefault(cam_default)],
                   [NewGameObject EXCEPT !.components = <<"Light">>,
                                         !.direction = DefaultDirection],
                   [NewGameObject EXCEPT !.components = <<"Cube">>],
                   [NewGameObject EXCEPT !.components = <<"Plane">>] >>
       /\ shadow' = [shadow EXCEPT !.light = n + 2, !.cube = n + 3, !.plane = n + 4]
    /\ UNCHANGED <<eye, last_event, reset, pc_w, upd_idx, passes, lookat_calls, cam_default>>
    /\ UNCHANGED borrow_log
    /\ UNCHANGED not_world_vars

(* Cube::start: the cube mesh with a "unrust/shadow" material *)
Cube_start(i) ==
    /\ pc_w = "start"
    /\ Unstarted(i, "Cube")
    /\ world_objects' = [world_objects EXCEPT ![i].started = TRUE,
                                              ![i].components = Append(@, "Mesh")]
    /\ UNCHANGED <<shadow, eye, last_event, reset, pc_w, upd_idx, passes, lookat_calls,
                   cam_default>>
    /\ UNCHANGED borrow_log
    /\ UNCHANGED not_world_vars

(* Plane::start: the plane mesh with a "unrust/shadow" material *)
Plane_start(i) ==
    /\ pc_w = "start"
    /\ Unstarted(i, "Plane")
    /\ world_objects' = [world_objects EXCEPT ![i].started = TRUE,
                                              ![i].components = Append(@, "Mesh")]
    /\ UNCHANGED <<shadow, eye, last_event, reset, pc_w, upd_idx, passes, lookat_calls,
                   cam_default>>
    /\ UNCHANGED borrow_log
    /\ UNCHANGED not_world_vars

(* an object whose actor has no update of its own, or no actor *)
World_update_other ==
    /\ pc_w = "update"
    /\ upd_idx <= Len(world_objects)
    /\ ~IsA(upd_idx, "MainScene") /\ ~IsA(upd_idx, "Shadow") /\ ~IsA(upd_idx, "Cube")
    /\ upd_idx' = upd_idx + 1
    /\ UNCHANGED <<world_objects, shadow, eye, last_event, reset, pc_w, passes, lookat_calls,
                   cam_default>>
    /\ UNCHANGED borrow_log
    /\ UNCHANGED not_world_vars

(* Cube::update turns the cube; its pose is not part of the state *)
Cube_update ==
    /\ pc_w = "update"
    /\ IsA(upd_idx, "Cube")
    /\ upd_idx' = upd_idx + 1
    /\ UNCHANGED <<world_objects, shadow, eye, last_event, reset, pc_w, passes, lookat_calls,
                   cam_default>>
    /\ UNCHANGED borrow_log
    /\ UNCHANGED not_world_vars

World_update_done ==
    /\ pc_w = "update"
    /\ upd_idx > Len(world_objects)
    /\ pc_w' = "render"
    /\ UNCHANGED <<world_objects, shadow, eye, last_event, reset, upd_idx, passes,
                   lookat_calls, cam_default>>
    /\ UNCHANGED borrow_log
    /\ UNCHANGED not_world_vars

(* the frame's normal pass, by the current camera when there is one *)
World_render ==
    /\ pc_w = "render"
    /\ passes' = IF current_camera = 0 THEN passes ELSE Append(passes, PassRead("main"))
    /\ pc_w' = "tick"
    /\ UNCHANGED <<world_objects, shadow, eye, last_event, reset, upd_idx, lookat_calls,
                   cam_default>>
    /\ UNCHANGED borrow_log
    /\ UNCHANGED not_world_vars

(* a behaviour holding the light moves it (Light::directional_mut) *)
light_moves(d) ==
    /\ pc_w = "update"
    /\ shadow.light # 0
    /\ world_objects[shadow.light].direction # d
    /\ world_objects' = [world_objects EXCEPT ![shadow.light].direction = d]
    /\ UNCHANGED <<shadow, eye, last_event, reset, pc_w, upd_idx, passes, lookat_calls,
                   cam_default>>
    /\ UNCHANGED borrow_log
    /\ UNCHANGED not_world_vars

(* ---- MainScene::update *)
(* the event loop of lines 49-71 over the events of the tick *)
MainScene_update_events(evts) ==
    /\ pc_w = "update"
    /\ IsA(upd_idx, "MainScene")
    /\ LET st == handle_events([eye |-> eye, last_event |-> last_event, reset |-> FALSE], evts)
       IN  /\ EyeInBounds(st.eye)
           /\ eye' = st.eye
           /\ last_event' = st.last_event
           /\ reset' = st.reset
           /\ pc_w' = IF st.reset THEN "ms_reset" ELSE "ms_camera"
    /\ UNCHANGED <<world_objects, shadow, upd_idx, passes, lookat_calls, cam_default>>
    /\ UNCHANGED borrow_log
    /\ UNCHANGED not_world_vars

(* world.reset(): every object is removed, the actors with them *)
MainScene_update_reset ==
    /\ pc_w = "ms_reset"
    /\ world_objects' = world_reset
    /\ shadow' = NoShadow
    /\ pc_w' = "ms_new_game_object"
    /\ UNCHANGED <<eye, last_event, reset, upd_idx, passes, lookat_calls, cam_default>>
    /\ UNCHANGED borrow_log
    /\ UNCHANGED not_world_vars

(* let scene = world.new_game_object() *)
MainScene_update_new_game_object ==
    /\ pc_w = "ms_new_game_object"
    /\ world_objects' = world_new_game_object(world_objects)
    /\ pc_w' = "ms_add_component"
    /\ UNCHANGED <<shadow, eye, last_event, reset, upd_idx, passes, lookat_calls, cam_default>>
    /\ UNCHANGED borrow_log
    /\ UNCHANGED not_world_vars

(* the re-registration without the `return` *)
MainScene_update_add_component_no_return ==
    /\ pc_w = "ms_add_component"
    /\ world_objects' = [world_objects EXCEPT ![Len(world_objects)].components =
                                                  Append(@, "MainScene")]
    /\ pc_w' = "ms_camera"
    /\ UNCHANGED <<shadow, eye, last_event, reset, upd_idx, passes, lookat_calls, cam_default>>
    /\ UNCHANGED borrow_log
    /\ UNCHANGED not_world_vars

(* scene.borrow_mut().add_component(MainScene::new()); return; *)
(* from here on eye and last_event are those of the new MainScene          *)
MainScene_update_add_component ==
    /\ pc_w = "ms_add_component"
    /\ world_objects' = [world_objects EXCEPT ![Len(world_objects)].components =
                                                  Append(@, "MainScene")]
    /\ eye' = EyeNew
    /\ last_event' = "None"
    /\ pc_w' = "update"
    /\ upd_idx' = upd_idx + 1
    /\ UNCHANGED <<shadow, reset, passes, lookat_calls, cam_default>>
    /\ UNCHANGED borrow_log
    /\ UNCHANGED not_world_vars

(* lines 84-108: the camera looks at the origin from eye, then the labels  *)
MainScene_update_camera ==
    /\ pc_w = "ms_camera"
    /\ IF current_camera = 0
       THEN \* world.current_camera().unwrap() panics
            /\ pc_w' = "panicked"
            /\ UNCHANGED <<world_objects, upd_idx, lookat_calls>>
       ELSE /\ world_objects' = [world_objects EXCEPT ![current_camera].camera.view = <<eye>>]
            /\ lookat_calls' = lookat_calls + 1
            /\ pc_w' = "update"
            /\ upd_idx' = upd_idx + 1
    /\ UNCHANGED <<shadow, eye, last_event, reset, passes, cam_default>>
    /\ UNCHANGED borrow_log
    /\ UNCHANGED not_world_vars

(* The RefCell events of Shadow::update.  A cell is the RefCell of a       *)
(* GameObject of the World or of the current Camera; a holder is the       *)
(* binding (or temporary) that keeps the Ref or RefMut alive.              *)
Cell(sort, at) == [sort |-> sort, at |-> at]

CameraCell == Cell("Camera", current_camera)

BorrowEvent(op, cell, holder) == [op |-> op, cell |-> cell, holder |-> holder]

(* the Refs and RefMuts alive after the events of a log *)
RECURSIVE LiveBorrows(_)
LiveBorrows(log) ==
    IF log = << >> THEN {}
    ELSE LET e == log[Len(log)]
             before == LiveBorrows(SubSeq(log, 1, Len(log) - 1))
         IN  IF e.op \in {"borrow", "borrow_mut"} THEN before \cup {e}
             ELSE IF e.op = "drop"
                  THEN {b \in before : ~(b.cell = e.cell /\ b.holder = e.holder)}
                  ELSE before

(* RefCell::borrow and RefCell::borrow_mut succeed or panic; the render    *)
(* pass borrows every object of the list, as Engine::render does           *)
EventLegal(live, e) ==
    IF e.op = "borrow" THEN ~ \E b \in live : b.cell = e.cell /\ b.op = "borrow_mut"
    ELSE IF e.op = "borrow_mut" THEN ~ \E b \in live : b.cell = e.cell
    ELSE IF e.op = "drop" THEN \E b \in live : b.cell = e.cell /\ b.holder = e.holder
    ELSE ~ \E b \in live : b.cell.sort = "GameObject" /\ b.op = "borrow_mut"

LogLegal(log) ==
    \A k \in 1..Len(log) : EventLegal(LiveBorrows(SubSeq(log, 1, k - 1)), log[k])

(* lines 169, 178, 182: the three shared borrows of the matrix block *)
Shadow_update_block_borrows ==
    << BorrowEvent("borrow", Cell("GameObject", shadow.light), "light_borrow"),
       BorrowEvent("borrow", Cell("GameObject", shadow.cube), "cube_borrow"),
       BorrowEvent("borrow", Cell("GameObject", shadow.plane), "plane_borrow") >>

(* the block whose cube_borrow outlives it *)
Shadow_update_block_end_keeps_cube ==
    << BorrowEvent("drop", Cell("GameObject", shadow.plane), "plane_borrow"),
       BorrowEvent("drop", Cell("GameObject", shadow.light), "light_borrow") >>

(* line 186: the locals of the block are dropped, the last declared first *)
Shadow_update_block_end ==
    << BorrowEvent("drop", Cell("GameObject", shadow.plane), "plane_borrow"),
       BorrowEvent("drop", Cell("GameObject", shadow.cube), "cube_borrow"),
       BorrowEvent("drop", Cell("GameObject", shadow.light), "light_borrow") >>

(* lines 195, 202: `self.cube.borrow_mut().active = ..`, a temporary RefMut *)
Shadow_update_cube_borrow_mut ==
    << BorrowEvent("borrow_mut", Cell("GameObject", shadow.cube), "temporary"),
       BorrowEvent("drop", Cell("GameObject", shadow.cube), "temporary") >>

(* ---- Shadow::update *)
(* lines 165-166: the current camera is borrowed mutably *)
Shadow_update_begin ==
    /\ pc_w = "update"
    /\ IsA(upd_idx, "Shadow")
    /\ pc_w' = IF current_camera = 0 THEN "panicked" ELSE "sh_matrix"
    /\ borrow_log' = IF current_camera = 0 THEN << >>
                     ELSE << BorrowEvent("borrow_mut", CameraCell, "cam") >>
    /\ UNCHANGED <<world_objects, shadow, eye, last_event, reset, upd_idx, passes,
                   lookat_calls, cam_default>>
    /\ UNCHANGED not_world_vars

(* the shadow matrix computed once and kept *)
Shadow_update_matrix_once ==
    /\ pc_w = "sh_matrix"
    /\ IF /\ IsA(shadow.light, "Light")
          /\ IsA(shadow.cube, "Mesh")
          /\ IsA(shadow.plane, "Mesh")
       THEN LET m == ShadowMatrix(world_objects[shadow.light].direction) IN
            /\ world_objects' =
                  IF world_objects[shadow.cube].uShadowMatrix = << >>
                  THEN [world_objects EXCEPT ![shadow.cube].uShadowMatrix = <<m>>,
                                             ![shadow.plane].uShadowMatrix = <<m>>]
                  ELSE world_objects
            /\ pc_w' = "sh_set_render_texture"
            /\ borrow_log' = borrow_log \o Shadow_update_block_borrows
                                  \o Shadow_update_block_end
       ELSE /\ pc_w' = "panicked"
            /\ UNCHANGED <<world_objects, borrow_log>>
    /\ UNCHANGED <<shadow, eye, last_event, reset, upd_idx, passes, lookat_calls, cam_default>>
    /\ UNCHANGED not_world_vars

(* lines 168-186: the shadow matrix from the light's direction, into the   *)
(* material of the cube and of the plane                                   *)
Shadow_update_matrix ==
    /\ pc_w = "sh_matrix"
    /\ IF /\ IsA(shadow.light, "Light")
          /\ IsA(shadow.cube, "Mesh")
          /\ IsA(shadow.plane, "Mesh")
       THEN LET m == ShadowMatrix(world_objects[shadow.light].direction) IN
            /\ world_objects' = [world_objects EXCEPT ![shadow.cube].uShadowMatrix = <<m>>,
                                                      ![shadow.plane].uShadowMatrix = <<m>>]
            /\ pc_w' = "sh_set_render_texture"
            /\ borrow_log' = borrow_log \o Shadow_update_block_borrows
                                  \o Shadow_update_block_end
       ELSE \* one of the find_component().unwrap() panics
            /\ pc_w' = "panicked"
            /\ UNCHANGED <<world_objects, borrow_log>>
    /\ UNCHANGED <<shadow, eye, last_event, reset, upd_idx, passes, lookat_calls, cam_default>>
    /\ UNCHANGED not_world_vars

(* line 188 *)
Shadow_update_set_render_texture ==
    /\ pc_w = "sh_set_render_texture"
    /\ world_objects' = [world_objects EXCEPT ![current_camera].camera.render_texture = shadow.rt]
    /\ pc_w' = "sh_set_rect"
    /\ UNCHANGED <<shadow, eye, last_event, reset, upd_idx, passes, lookat_calls, cam_default>>
    /\ UNCHANGED borrow_log
    /\ UNCHANGED not_world_vars

(* line 191 left out *)
Shadow_update_set_rect_missing ==
    /\ pc_w = "sh_set_rect"
    /\ pc_w' = "sh_show_cube"
    /\ UNCHANGED <<world_objects, shadow, eye, last_event, reset, upd_idx, passes,
                   lookat_calls, cam_default>>
    /\ UNCHANGED borrow_log
    /\ UNCHANGED not_world_vars

(* line 191 *)
Shadow_update_set_rect ==
    /\ pc_w = "sh_set_rect"
    /\ world_objects' = [world_objects EXCEPT ![current_camera].camera.rect = FullRect]
    /\ pc_w' = "sh_show_cube"
    /\ UNCHANGED <<shadow, eye, last_event, reset, upd_idx, passes, lookat_calls, cam_default>>
    /\ UNCHANGED borrow_log
    /\ UNCHANGED not_world_vars

(* line 196 left out: the Shadow's own object stays visible *)
Shadow_update_show_cube_only ==
    /\ pc_w = "sh_show_cube"
    /\ borrow_log' = borrow_log \o Shadow_update_cube_borrow_mut
    /\ IF LogLegal(borrow_log')
       THEN /\ world_objects' = [world_objects EXCEPT ![shadow.cube].active = TRUE]
            /\ pc_w' = "sh_render_pass"
       ELSE \* borrow_mut panics: already borrowed
            /\ pc_w' = "panicked"
            /\ UNCHANGED world_objects
    /\ UNCHANGED <<shadow, eye, last_event, reset, upd_idx, passes, lookat_calls, cam_default>>
    /\ UNCHANGED not_world_vars

(* lines 195-196 *)
Shadow_update_show_cube ==
    /\ pc_w = "sh_show_cube"
    /\ borrow_log' = borrow_log \o Shadow_update_cube_borrow_mut
    /\ IF LogLegal(borrow_log')
       THEN /\ world_objects' = [world_objects EXCEPT ![shadow.cube].active = TRUE,
                                                     ![upd_idx].active = FALSE]
            /\ pc_w' = "sh_render_pass"
       ELSE \* borrow_mut panics: already borrowed
            /\ pc_w' = "panicked"
            /\ UNCHANGED world_objects
    /\ UNCHANGED <<shadow, eye, last_event, reset, upd_idx, passes, lookat_calls, cam_default>>
    /\ UNCHANGED not_world_vars

(* line 199: world.engine().render_pass(&cam, ClearOption::default()) *)
Shadow_update_render_pass ==
    /\ pc_w = "sh_render_pass"
    /\ borrow_log' = Append(borrow_log, BorrowEvent("render_pass", CameraCell, "cam"))
    /\ IF LogLegal(borrow_log')
       THEN /\ passes' = Append(passes, PassRead("shadow"))
            /\ pc_w' = "sh_show_shadow"
       ELSE \* a borrow of the pass panics: already mutably borrowed
            /\ pc_w' = "panicked"
            /\ UNCHANGED passes
    /\ UNCHANGED <<world_objects, shadow, eye, last_event, reset, upd_idx, lookat_calls,
                   cam_default>>
    /\ UNCHANGED not_world_vars

(* lines 202-203 *)
Shadow_update_show_shadow ==
    /\ pc_w = "sh_show_shadow"
    /\ borrow_log' = borrow_log \o Shadow_update_cube_borrow_mut
    /\ IF LogLegal(borrow_log')
       THEN /\ world_objects' = [world_objects EXCEPT ![shadow.cube].active = FALSE,
                                                     ![upd_idx].active = TRUE]
            /\ pc_w' = "sh_clear_render_texture"
       ELSE \* borrow_mut panics: already borrowed
            /\ pc_w' = "panicked"
            /\ UNCHANGED world_objects
    /\ UNCHANGED <<shadow, eye, last_event, reset, upd_idx, passes, lookat_calls, cam_default>>
    /\ UNCHANGED not_world_vars

(* line 206 *)
Shadow_update_clear_render_texture ==
    /\ pc_w = "sh_clear_render_texture"
    /\ world_objects' = [world_objects EXCEPT ![current_camera].camera.render_texture = "None"]
    /\ pc_w' = "sh_clear_rect"
    /\ UNCHANGED <<shadow, eye, last_event, reset, upd_idx, passes, lookat_calls, cam_default>>
    /\ UNCHANGED borrow_log
    /\ UNCHANGED not_world_vars

(* line 207 left out: the update returns with the rect as it was *)
Shadow_update_clear_rect_missing ==
    /\ pc_w = "sh_clear_rect"
    /\ pc_w' = "update"
    /\ upd_idx' = upd_idx + 1
    /\ UNCHANGED <<world_objects, shadow, eye, last_event, reset, passes, lookat_calls,
                   cam_default>>
    /\ borrow_log' = Append(borrow_log, BorrowEvent("drop", CameraCell, "cam"))
    /\ UNCHANGED not_world_vars

(* line 207, and the update returns *)
Shadow_update_clear_rect ==
    /\ pc_w = "sh_clear_rect"
    /\ world_objects' = [world_objects EXCEPT ![current_camera].camera.rect = << >>]
    /\ pc_w' = "update"
    /\ upd_idx' = upd_idx + 1
    /\ UNCHANGED <<shadow, eye, last_event, reset, passes, lookat_calls, cam_default>>
    /\ borrow_log' = Append(borrow_log, BorrowEvent("drop", CameraCell, "cam"))
    /\ UNCHANGED not_world_vars

NextShadow ==
    \/ World_tick
    \/ World_start_done
    \/ \E i \in 1..Len(world_objects) : MainScene_start(i)
    \/ \E i \in 1..Len(world_objects) : Shadow_start(i)
    \/ \E i \in 1..Len(world_objects) : Cube_start(i)
    \/ \E i \in 1..Len(world_objects) : Plane_start(i)
    \/ World_update_other
    \/ Cube_update
    \/ World_update_done
    \/ World_render
    \/ \E d \in LightDirections : light_moves(d)
    \/ \E evts \in EventLists : MainScene_update_events(evts)
    \/ MainScene_update_reset
    \/ MainScene_update_new_game_object
    \/ MainScene_update_add_component
    \/ MainScene_update_camera
    \/ Shadow_update_begin
    \/ Shadow_update_matrix
    \/ Shadow_update_set_render_texture
    \/ Shadow_update_set_rect
    \/ Shadow_update_show_cube
    \/ Shadow_update_render_pass
    \/ Shadow_update_show_shadow
    \/ Shadow_update_clear_render_texture
    \/ Shadow_update_clear_rect

Next ==
    \/ \E t \in Transforms : new_gameobject(t)
    \/ \E c \in Components : add_component(c)
    \/ \E camera \in {NoCamera, Camera} : set_main_camera(camera)
    \/ render_begin
    \/ render_step_no_material
    \/ render_step_no_mesh
    \/ render_step
    \/ render_end
    \/ render_return

Spec == Init /\ [][Next]_vars

SpecShadow == Init /\ [][NextShadow]_vars

SpecShadowAnyCamera == InitAnyCamera /\ [][NextShadow]_vars

SpecIds == Init /\ [][NextIds]_vars

InitLight ==
    EngineInit /\ WorldInit /\ IdInit /\ LightInitAny /\ MainInit /\ cam_default = NoOverrides

SpecLight == InitLight /\ [][NextLight]_vars

InitMain ==
    EngineInit /\ WorldInit /\ IdInit /\ LightInit /\ MainInitAny /\ cam_default = NoOverrides

SpecMain == InitMain /\ [][NextMain]_vars

(***************************************************************************)
(* Properties of the draw loop.                                            *)
(***************************************************************************)
ProgramOf(i) == TheComponent(objects[i], "Material").program

MeshIdOf(i) == TheComponent(objects[i], "Mesh").id

Drawable(i) == HasComponent(objects[i], "Material") /\ HasComponent(objects[i], "Mesh")

(* the number of maximal contiguous runs of equal values among f(1)..f(n) *)
ProgramRuns(n) == Cardinality({i \in 1..n : i = 1 \/ ProgramOf(i) # ProgramOf(i - 1)})

MeshRuns(n) == Cardinality({i \in 1..n : i = 1 \/ MeshIdOf(i) # MeshIdOf(i - 1)})

GlCalls(op) == {k \in 1..Len(gl) : gl[k].op = op}

FrameDone == pc = "done" /\ main_camera.some

(* C1: when render() has run to its end with a camera set, switch_prog is  *)
(* the number of maximal contiguous runs of equal program handles in the   *)
(* object list, and a program was prepared exactly at the start of a run.  *)
C1_SwitchProgIsProgramRuns ==
    FrameDone =>
        /\ \A i \in 1..Len(objects) : Drawable(i)
        /\ ctx.switch_prog = ProgramRuns(Len(objects))
        /\ \A i \in 1..Len(objects) :
              (\E k \in GlCalls("prepare") : gl[k].obj = i)
                  <=> (i = 1 \/ ProgramOf(i) # ProgramOf(i - 1))

C1_Witness ==
    /\ FrameDone
    /\ Len(objects) = 3
    /\ ProgramOf(1) = ProgramOf(3)
    /\ ProgramOf(1) # ProgramOf(2)
    /\ ctx.switch_prog = 3

(* C2: during and after a render() with a camera set, switch_mesh is the   *)
(* number of maximal contiguous runs of equal Mesh component ids among the *)
(* objects drawn so far, a mesh was bound exactly for the objects whose id *)
(* differs from their predecessor's (or that are first), and the cached id *)
(* is that of the object drawn last.                                       *)
C2_SwitchMeshIsMeshRuns ==
    (main_camera.some /\ pc \in {"loop", "done"}) =>
        LET n == idx - 1 IN
        /\ \A i \in 1..n : Drawable(i)
        /\ ctx.switch_mesh = MeshRuns(n)
        /\ ctx.mesh = (IF n = 0 THEN None ELSE MeshIdOf(n))
        /\ \A i \in 1..n :
              (\E k \in GlCalls("mesh_bind") : gl[k].obj = i /\ gl[k].mesh = MeshIdOf(i))
                  <=> (i = 1 \/ MeshIdOf(i) # MeshIdOf(i - 1))
        /\ (pc = "done" => n = Len(objects))

C2_Witness ==
    /\ FrameDone
    /\ Len(objects) = 3
    /\ MeshIdOf(1) = MeshIdOf(2)
    /\ MeshIdOf(2) # MeshIdOf(3)
    /\ ctx.switch_mesh = 2
    /\ ctx.mesh = MeshIdOf(3)

(* C3: a frame over N >= 1 objects that all share one program and one mesh *)
(* id ends with switch_prog = 1 and switch_mesh = 1.                       *)
C3_SharedIdentitySwitchesOnce ==
    (/\ FrameDone
     /\ Len(objects) >= 1
     /\ \A i \in 1..Len(objects) :
           ProgramOf(i) = ProgramOf(1) /\ MeshIdOf(i) = MeshIdOf(1))
        => (ctx.switch_prog = 1 /\ ctx.switch_mesh = 1)

C3_Witness ==
    /\ FrameDone
    /\ Len(objects) = MaxObjects
    /\ \A i \in 1..Len(objects) :
          ProgramOf(i) = ProgramOf(1) /\ MeshIdOf(i) = MeshIdOf(1)
    /\ ctx.switch_prog = 1
    /\ ctx.switch_mesh = 1

(* C9: a render() with no camera set ends normally whatever the objects    *)
(* are, having made the calls of clear() and no other: no prepare, no      *)
(* texture bind, no uniform, no mesh bind, no draw; no context is built.   *)
C9_NoCameraOnlyClears ==
    (~main_camera.some /\ pc # "idle") =>
        /\ pc = "done"
        /\ gl = clear
        /\ \E k \in GlCalls("clear") : gl[k].val = <<"Color">>
        /\ \E k \in GlCalls("clear") : gl[k].val = <<"Depth">>
        /\ \A k \in 1..Len(gl) : gl[k].op \in {"clear", "clear_color"}
        /\ ctx = DefaultContext

C9_Witness ==
    /\ ~main_camera.some
    /\ pc = "done"
    /\ Len(objects) >= 2
    /\ ~HasComponent(objects[1], "Material")
    /\ ~HasComponent(objects[2], "Mesh")
    /\ gl = clear

(* the first object of the list that lacks a Material or a Mesh, 0 if none *)
FirstUndrawable ==
    LET bad == {i \in 1..Len(objects) : ~Drawable(i)}
    IN  IF bad = {} THEN 0 ELSE CHOOSE i \in bad : \A j \in bad : i <= j

C10_Inv ==
    (main_camera.some /\ pc # "idle") =>
        /\ pc = "panicked" => (FirstUndrawable # 0 /\ idx = FirstUndrawable)
        /\ FirstUndrawable # 0 =>
              /\ pc # "done"
              /\ idx <= FirstUndrawable
              /\ \A k \in GlCalls("draw") \cup GlCalls("mesh_bind") :
                    gl[k].obj < FirstUndrawable
        /\ \A k \in 1..Len(gl) : gl[k].prog # None \/ gl[k].op \in {"clear", "clear_color"}

C10_Step ==
    (main_camera.some /\ pc = "loop" /\ idx = FirstUndrawable) =>
        (pc' = "panicked" /\ idx' = idx /\ objects' = objects)

(* C10: with a camera set, render() panics at the first object of the list *)
(* that lacks a Material or a Mesh: the loop never gets past it, the frame *)
(* never completes, and no mesh is bound or drawn for it or for a later    *)
(* object.                                                                 *)
C10_PanicsAtFirstUndrawable == [](C10_Inv) /\ [][C10_Step]_vars

C10_Witness ==
    /\ main_camera.some
    /\ pc = "panicked"
    /\ idx = 2
    /\ Len(objects) = 3
    /\ HasComponent(objects[2], "Material")
    /\ ~HasComponent(objects[2], "Mesh")
    /\ Drawable(3)
    /\ \E k \in GlCalls("draw") : gl[k].obj = 1

(***************************************************************************)
(* Properties of the shadow example.                                       *)
(***************************************************************************)
CurrentCameraData == world_objects[current_camera].camera

ShadowUpdateReturned == pc_w = "update" /\ upd_idx > 1 /\ IsA(upd_idx - 1, "Shadow")

ShadowPasses == {k \in 1..Len(passes) : passes[k].kind = "shadow"}

MainPasses == {k \in 1..Len(passes) : passes[k].kind = "main"}

(* the positions of Shadow::update after line 188 and up to line 207 *)
OverrideWindow ==
    {"sh_set_rect", "sh_show_cube", "sh_render_pass", "sh_show_shadow",
     "sh_clear_render_texture", "sh_clear_rect"}

(* C4: when Shadow::update has returned, render_texture and rect of the    *)
(* current camera are both None, whatever a new Camera holds in them.      *)
C4_OverridesClearedAfterUpdate ==
    ShadowUpdateReturned =>
        /\ current_camera # 0
        /\ CurrentCameraData.render_texture = "None"
        /\ CurrentCameraData.rect = << >>

C4_Witness ==
    /\ ShadowUpdateReturned
    /\ cam_default.render_texture = "other_rt"
    /\ cam_default.rect = <<0, 0, 800, 600>>
    /\ ShadowPasses # {}
    /\ CurrentCameraData.render_texture = "None"
    /\ CurrentCameraData.rect = << >>

(* C5: a camera holds an override only inside Shadow::update, between line *)
(* 188 and line 207, and only the current camera does; every render pass   *)
(* reads either both overrides (the Shadow's RenderTexture and the rect    *)
(* ((0,0),(1024,1024))) or none: the shadow pass both, the frame's normal  *)
(* pass none.                                                              *)
C5_OverridesOnlyInsideShadowPass ==
    /\ \A i \in 1..Len(world_objects) :
          (world_objects[i].camera.render_texture # "None" \/ world_objects[i].camera.rect # << >>)
              => (pc_w \in OverrideWindow /\ i = current_camera)
    /\ pc_w \in {"sh_show_cube", "sh_render_pass", "sh_show_shadow"} =>
          (CurrentCameraData.render_texture = shadow.rt /\ CurrentCameraData.rect = FullRect)
    /\ \A k \in ShadowPasses :
          passes[k].render_texture = "rt" /\ passes[k].rect = FullRect
    /\ \A k \in MainPasses :
          passes[k].render_texture = "None" /\ passes[k].rect = << >>

C5_Witness ==
    /\ pc_w = "tick"
    /\ Len(passes) = 2
    /\ passes[1].kind = "shadow"
    /\ passes[1].render_texture = "rt"
    /\ passes[1].rect = FullRect
    /\ passes[2].kind = "main"
    /\ passes[2].render_texture = "None"
    /\ passes[2].rect = << >>

(* C6: a Shadow::update runs exactly one render pass; the pass sees the    *)
(* cube active and the Shadow's own object inactive; when the update has   *)
(* returned the cube is inactive and the Shadow's own object active.       *)
C6_OnePassWithOnlyTheCubeShown ==
    /\ \A k \in ShadowPasses : passes[k].cube_active /\ ~passes[k].go_active
    /\ pc_w \in {"sh_matrix", "sh_set_render_texture", "sh_set_rect", "sh_show_cube",
                 "sh_render_pass"} => ShadowPasses = {}
    /\ pc_w \in {"sh_show_shadow", "sh_clear_render_texture", "sh_clear_rect"} =>
          Cardinality(ShadowPasses) = 1
    /\ ShadowUpdateReturned =>
          /\ Cardinality(ShadowPasses) = 1
          /\ ~world_objects[shadow.cube].active
          /\ world_objects[upd_idx - 1].active

C6_Witness ==
    /\ ShadowUpdateReturned
    /\ Cardinality(ShadowPasses) = 1
    /\ \A k \in ShadowPasses : passes[k].cube_active /\ ~passes[k].go_active
    /\ ~world_objects[shadow.cube].active
    /\ world_objects[shadow_go].active

(* C7: the shadow pass of a frame reads, in the material of the cube and   *)
(* in that of the plane, the shadow matrix of the light's direction at     *)
(* that pass: the matrix is written in the same update, before the pass.   *)
C7_ShadowMatrixIsOfThisFrame ==
    /\ \A k \in ShadowPasses :
          /\ passes[k].cube_matrix = <<ShadowMatrix(passes[k].direction)>>
          /\ passes[k].plane_matrix = <<ShadowMatrix(passes[k].direction)>>
    /\ pc_w \in {"sh_set_render_texture", "sh_set_rect", "sh_show_cube", "sh_render_pass"} =>
          /\ world_objects[shadow.cube].uShadowMatrix =
                <<ShadowMatrix(world_objects[shadow.light].direction)>>
          /\ world_objects[shadow.plane].uShadowMatrix =
                <<ShadowMatrix(world_objects[shadow.light].direction)>>

C7_Witness ==
    /\ pc_w = "sh_show_shadow"
    /\ \E k \in ShadowPasses :
          /\ passes[k].direction = <<0, 0 - 1000, 0>>
          /\ passes[k].cube_matrix = <<ShadowMatrix(<<0, 0 - 1000, 0>>)>>
          /\ passes[k].plane_matrix = passes[k].cube_matrix
          /\ passes[k].cube_matrix[1].look_from = <<0, 1000, 0>>

(* C8: in MainScene::update the object list is empty right after           *)
(* world.reset(), holds exactly one object, carrying the new MainScene,    *)
(* once the scene is registered again, and the update returns there: the   *)
(* camera code is not reached and Camera::lookat is not called in a tick   *)
(* that resets.                                                            *)
C8_ResetLeavesOneObject ==
    /\ pc_w \in {"ms_reset", "ms_new_game_object", "ms_add_component"} => reset
    /\ pc_w = "ms_new_game_object" => Len(world_objects) = 0
    /\ pc_w = "ms_add_component" =>
          (Len(world_objects) = 1 /\ world_objects[1].components = << >>)
    /\ pc_w = "ms_camera" => ~reset
    /\ (reset /\ pc_w \in {"update", "render", "tick"}) =>
          /\ Len(world_objects) = 1
          /\ world_objects[1].components = <<"MainScene">>
          /\ ~world_objects[1].started
          /\ lookat_calls = 0
          /\ current_camera = 0

C8_Witness ==
    /\ reset
    /\ pc_w = "update"
    /\ upd_idx = 2
    /\ last_event = "None"
    /\ Len(world_objects) = 1
    /\ world_objects[1].components = <<"MainScene">>
    /\ lookat_calls = 0

(***************************************************************************)
(* Claims about the frame as a whole.                                      *)
(***************************************************************************)
IsDraw(call) == call.op = "draw"

DrawCalls == SelectSeq(gl, IsDraw)

(* C11: when render() has run to its end with a camera set, the draw calls *)
(* of the frame are one per object of the list, in the order of the list,  *)
(* each with the Mesh of its object: no object is skipped, drawn twice or  *)
(* drawn out of order, whatever the context has cached.                    *)
C11_EveryObjectDrawnOnceInOrder ==
    FrameDone =>
        /\ Len(DrawCalls) = Len(objects)
        /\ \A i \in 1..Len(objects) :
              /\ DrawCalls[i].obj = i
              /\ DrawCalls[i].mesh = MeshIdOf(i)

C11_Witness ==
    /\ FrameDone
    /\ Len(objects) = 3
    /\ MeshIdOf(2) = MeshIdOf(1)
    /\ ProgramOf(2) = ProgramOf(1)
    /\ MeshIdOf(3) # MeshIdOf(2)
    /\ objects[1].transform # objects[2].transform
    /\ Len(DrawCalls) = 3

(***************************************************************************)
(* Claims about component identities.                                      *)
(***************************************************************************)
(* C12: the tokens of next_component_id start at 1, every call returns a   *)
(* token strictly greater than that of every earlier call, and so no two   *)
(* components are given the same token.                                    *)
C12_TokensStrictlyIncreasing ==
    /\ Len(issued) > 0 => issued[1].id = 1
    /\ \A i, j \in 1..Len(issued) : i < j => issued[i].id < issued[j].id

(* C13: every render() with a camera starts its loop from a default        *)
(* EngineContext, whatever the frame before has left, and once the first   *)
(* object of a frame has been drawn the frame holds a program prepare and  *)
(* a mesh bind made for that object, also when the frame before ended on   *)
(* the same program and mesh.                                              *)
C13_Inv ==
    (pc # "idle" /\ main_camera.some /\ idx >= 2) =>
        /\ \E k \in GlCalls("prepare") : gl[k].obj = 1 /\ gl[k].prog = ProgramOf(1)
        /\ \E k \in GlCalls("mesh_bind") : gl[k].obj = 1 /\ gl[k].mesh = MeshIdOf(1)
        /\ ctx.switch_prog >= 1
        /\ ctx.switch_mesh >= 1

C13_Step == (pc = "idle" /\ pc' = "loop") => ctx' = DefaultContext

C13_FreshContextEveryFrame == [](C13_Inv) /\ [][C13_Step]_vars

C13_Witness ==
    /\ pc = "loop"
    /\ idx = 2
    /\ prev_ctx.current_prog = ProgramOf(1)
    /\ prev_ctx.mesh = MeshIdOf(1)
    /\ prev_ctx.switch_prog >= 1
    /\ \E k \in GlCalls("prepare") : gl[k].obj = 1
    /\ \E k \in GlCalls("mesh_bind") : gl[k].obj = 1

(* C14: no step of render(), from its entry to its return, changes the     *)
(* camera, the length or order of the object list, or the transform or     *)
(* component list of any object.                                           *)
C14_Step == (pc # "idle" \/ pc' # "idle") => (objects' = objects /\ main_camera' = main_camera)

C14_RenderOnlyReadsTheScene == [][C14_Step]_vars

C14_Witness ==
    /\ FrameDone
    /\ Len(objects) >= 2
    /\ Len(DrawCalls) = Len(objects)
    /\ objects[1].transform # objects[2].transform
    /\ ctx.switch_prog >= 2

(***************************************************************************)
(* Claims about the object list.                                           *)
(***************************************************************************)
(* C15: the object list never shrinks; a step that lengthens it adds       *)
(* exactly one object at the end, with no components, leaves the objects   *)
(* before it as and where they were, and the handle returned denotes that  *)
(* new last element; and the transform of the new object is the one that   *)
(* new_gameobject was given.                                               *)
C15_Step ==
    /\ Len(objects') >= Len(objects)
    /\ Len(objects') # Len(objects) =>
          /\ Len(objects') = Len(objects) + 1
          /\ SubSeq(objects', 1, Len(objects)) = objects
          /\ go' = Len(objects')
          /\ objects'[go'].components = << >>
    /\ \A t \in Transforms :
          new_gameobject(t) => objects'[go'] = [transform |-> t, components |-> << >>]

C15_NewObjectAppendedAndReturned == [][C15_Step]_vars

C15_Witness ==
    /\ Len(objects) = 3
    /\ go = 3
    /\ objects[3] = [transform |-> "t1", components |-> << >>]
    /\ objects[2].transform = "t0"
    /\ Len(objects[1].components) = 2
    /\ Len(objects[2].components) = 2

(***************************************************************************)
(* Claims about lights.                                                    *)
(***************************************************************************)
Plus(v, w) == <<v[1] + w[1], v[2] + w[2], v[3] + w[3]>>

(* C16: an update of a Point light with the model matrix of a translation  *)
(* t sets world_space_position to position + t and changes no other field  *)
(* of the light: the local position and the ambient, diffuse, specular,    *)
(* constant, linear and quadratic terms stay as they were.                 *)
C16_Step ==
    \A t \in Translations :
        (light.variant = "Point" /\ Light_update(from_translation(t))) =>
            /\ light'.world_space_position = Plus(light.position, t)
            /\ light' = [light EXCEPT !.world_space_position = Plus(light.position, t)]

C16_PointUpdateTranslates == [][C16_Step]_vars

C16_Witness ==
    /\ light.variant = "Point"
    /\ light.position = <<1000, 0 - 1000, 0>>
    /\ light.world_space_position = <<0, 0 - 1000, 1000>>
    /\ light_pc = "ready"

Dot(v, w) == v[1] * w[1] + v[2] * w[2] + v[3] * w[3]

Cross(v, w) ==
    <<v[2] * w[3] - v[3] * w[2], v[3] * w[1] - v[1] * w[3], v[1] * w[2] - v[2] * w[1]>>

(* w has length one, up to the rounding of its components to thousandths *)
IsUnit(w) == Dot(w, w) >= 998000 /\ Dot(w, w) <= 1002000

(* w is v normalized: of length one, parallel to v and pointing its way *)
IsNormalized(w, v) == IsUnit(w) /\ Cross(w, v) = <<0, 0, 0>> /\ Dot(w, v) > 0

(* C17: an update of a Directional light with the identity model matrix    *)
(* sets world_space_direction to the normalized local direction, whatever  *)
(* the local direction is, and leaves the local direction as it was.       *)
C17_Step ==
    (light.variant = "Directional" /\ Light_update(Identity)) =>
        /\ IsNormalized(light'.world_space_direction, light.direction)
        /\ light'.direction = light.direction

C17_IdentityUpdateNormalizes == [][C17_Step]_vars

UniformNames == {uniforms[k].name : k \in 1..Len(uniforms)}

UniformValue(name) == uniforms[CHOOSE k \in 1..Len(uniforms) : uniforms[k].name = name].value

DirectionalSuffixes == {".direction", ".ambient", ".diffuse", ".specular"}

PointSuffixes ==
    {".position", ".ambient", ".diffuse", ".specular", ".constant", ".linear", ".quadratic",
     ".rate"}

(* C19: the uniforms a bind has written are, each once, those of the       *)
(* variant of the light under the prefix given: for a Directional light    *)
(* the world-space direction and the ambient, diffuse and specular terms   *)
(* and nothing else; for a Point light the world-space position, the       *)
(* three terms, the three attenuation coefficients and a rate of 1.0; and  *)
(* the bind leaves the light as it was.                                    *)
C19_Inv ==
    uniforms # << >> =>
        \E prefix \in LightNames :
            IF light.variant = "Directional"
            THEN /\ Len(uniforms) = Cardinality(DirectionalSuffixes)
                 /\ UniformNames = {prefix \o s : s \in DirectionalSuffixes}
                 /\ UniformValue(prefix \o ".direction") = light.world_space_direction
                 /\ UniformValue(prefix \o ".ambient") = light.ambient
                 /\ UniformValue(prefix \o ".diffuse") = light.diffuse
                 /\ UniformValue(prefix \o ".specular") = light.specular
            ELSE /\ Len(uniforms) = Cardinality(PointSuffixes)
                 /\ UniformNames = {prefix \o s : s \in PointSuffixes}
                 /\ UniformValue(prefix \o ".position") = light.world_space_position
                 /\ UniformValue(prefix \o ".ambient") = light.ambient
                 /\ UniformValue(prefix \o ".diffuse") = light.diffuse
                 /\ UniformValue(prefix \o ".specular") = light.specular
                 /\ UniformValue(prefix \o ".constant") = light.constant
                 /\ UniformValue(prefix \o ".linear") = light.linear
                 /\ UniformValue(prefix \o ".quadratic") = light.quadratic
                 /\ UniformValue(prefix \o ".rate") = <<10000>>

C19_Step == (\E lightname \in LightNames : Light_bind(lightname)) => light' = light

C19_BindWritesTheVariantsUniforms == [](C19_Inv) /\ [][C19_Step]_vars

C19_Witness ==
    /\ light.variant = "Directional"
    /\ light.direction = <<0, 0, 1000>>
    /\ light.world_space_direction = <<0, 0 - 1000, 0>>
    /\ Len(uniforms) = 4
    /\ uniforms[1] = Uniform("uDirectionalLight.direction", <<0, 0 - 1000, 0>>)

(***************************************************************************)
(* Claims about the GL state at a draw call.                               *)
(***************************************************************************)
(* the last call of kind op before call k of the frame, 0 if there is none *)
LastBefore(op, k) ==
    IF \E j \in GlCalls(op) : j < k
    THEN CHOOSE j \in GlCalls(op) : j < k /\ \A h \in GlCalls(op) : h < k => h <= j
    ELSE 0

(* C18: at every draw call of a frame the current program is the program   *)
(* of the Material of the object drawn and is the program prepared last in *)
(* this frame, and the material of that object was bound, against that     *)
(* program, after the draw of the object before it, also when no program   *)
(* was prepared for this object.                                           *)
C18_MaterialBoundAtEveryDraw ==
    \A k \in GlCalls("draw") :
        LET i == gl[k].obj
            p == LastBefore("prepare", k)
            b == LastBefore("texture_bind", k)
        IN  /\ gl[k].prog = ProgramOf(i)
            /\ p > 0
            /\ gl[p].prog = ProgramOf(i)
            /\ b > 0
            /\ gl[b].obj = i
            /\ gl[b].prog = ProgramOf(i)
            /\ b > p
            /\ b > LastBefore("draw", k)

C18_Witness ==
    /\ FrameDone
    /\ Len(objects) = 3
    /\ ProgramOf(2) = ProgramOf(1)
    /\ ProgramOf(3) # ProgramOf(2)
    /\ ~ \E k \in GlCalls("prepare") : gl[k].obj = 2
    /\ \E k \in GlCalls("texture_bind") : gl[k].obj = 2
    /\ Len(DrawCalls) = 3

(* C20: at every draw call of a frame the buffers bound last are those of  *)
(* the Mesh of the object drawn, and they were bound against the program   *)
(* that is current at the draw, also when the object before it has the     *)
(* same mesh and another program.                                          *)
C20_MeshBoundAgainstCurrentProgram ==
    \A k \in GlCalls("draw") :
        LET m == LastBefore("mesh_bind", k)
        IN  /\ m > 0
            /\ gl[m].mesh = MeshIdOf(gl[k].obj)
            /\ gl[m].prog = gl[k].prog

(***************************************************************************)
(* Claims about the borrows of Shadow::update.                             *)
(***************************************************************************)
LiveBefore(k) == LiveBorrows(SubSeq(borrow_log, 1, k - 1))

(* C22: no borrow or borrow_mut of Shadow::update finds its cell borrowed  *)
(* in a way that makes it panic; when the cube is mutably borrowed no      *)
(* shared borrow of the light, the cube or the plane is alive any more;    *)
(* and when the render pass runs the one borrow alive is the mutable       *)
(* borrow of the camera the update took at its start, which is the one     *)
(* handed to the pass.                                                     *)
C22_BorrowDiscipline ==
    /\ LogLegal(borrow_log)
    /\ \A k \in 1..Len(borrow_log) :
          /\ (borrow_log[k].op = "borrow_mut" /\ borrow_log[k].cell.sort = "GameObject") =>
                ~ \E b \in LiveBefore(k) : b.op = "borrow"
          /\ borrow_log[k].op = "render_pass" =>
                /\ borrow_log[1].op = "borrow_mut"
                /\ borrow_log[1].cell.sort = "Camera"
                /\ LiveBefore(k) = {borrow_log[1]}
                /\ borrow_log[k].cell = borrow_log[1].cell
                /\ borrow_log[k].holder = borrow_log[1].holder

C22_Witness ==
    /\ pc_w = "sh_clear_render_texture"
    /\ Len(borrow_log) = 12
    /\ borrow_log[2].op = "borrow"
    /\ borrow_log[8].op = "borrow_mut"
    /\ borrow_log[10].op = "render_pass"
    /\ borrow_log[3].cell = borrow_log[11].cell
    /\ LiveBorrows(borrow_log) = {BorrowEvent("borrow_mut", CameraCell, "cam")}
    /\ world_objects[shadow.cube].active = FALSE

(***************************************************************************)
(* Claims about the application loop.                                      *)
(***************************************************************************)
MainRunning == main_pc \notin {"main", "startup", "panicked"}

(* C21: as long as main() has not panicked the entity list and the object  *)
(* list of the engine have the same length and every object carries a Mesh *)
(* and a Material; once start-up is over there is one object per rigid     *)
(* body; a Click adds one object and one Entity; and inside the render of  *)
(* a tick neither of the steps that panic on a missing component can be    *)
(* taken.                                                                  *)
C21_Inv ==
    /\ main_pc # "panicked" =>
          /\ Len(cubes) = Len(objects)
          /\ \A i \in 1..Len(objects) : Drawable(i)
    /\ MainRunning => Len(objects) = Len(bodies)
    /\ main_pc = "rendering" =>
          /\ pc # "panicked"
          /\ ~ ENABLED render_step_no_material
          /\ ~ ENABLED render_step_no_mesh

C21_Step ==
    clicks' = clicks + 1 =>
        /\ Len(objects') = Len(objects) + 1
        /\ Len(cubes') = Len(cubes) + 1

C21_EveryEntityHasADrawableObject == [](C21_Inv) /\ [][C21_Step]_vars

C21_Witness ==
    /\ main_pc = "rendering"
    /\ pc = "done"
    /\ clicks = 1
    /\ Len(objects) = 3
    /\ Len(cubes) = 3
    /\ MeshIdOf(1) # MeshIdOf(2)
    /\ Len(DrawCalls) = 3

TickOrder == << "step", "events", "lookat", "sync", "render" >>

(* C23: the steps of a tick run in the order physics step, events, camera  *)
(* look-at, transform synchronisation, render; a Click is handled after    *)
(* the physics step and before the look-at; and all through the render of  *)
(* the tick the transform of the object of every Entity is the position of *)
(* its rigid body, the entities made by a Click of this tick included.     *)
C23_Inv ==
    /\ \E n \in 0..Len(TickOrder) : tick_log = SubSeq(TickOrder, 1, n)
    /\ main_pc = "rendering" =>
          /\ tick_log = TickOrder
          /\ main_camera.v = "lookat(-30,30,-30)"
          /\ \A k \in 1..Len(cubes) :
                objects[cubes[k].go].transform = bodies[cubes[k].rb].position

C23_Step == clicks' = clicks + 1 => (tick_log = << "step" >> /\ tick_log' = tick_log)

C23_TransformsSyncedAtRender == [](C23_Inv) /\ [][C23_Step]_vars

C23_Witness ==
    /\ main_pc = "rendering"
    /\ pc = "loop"
    /\ idx = 2
    /\ clicks = 1
    /\ Len(cubes) = 3
    /\ bodies[1].position # bodies[3].position
    /\ prev_ctx.switch_prog = 1
    /\ objects[3].transform = bodies[3].position

====
